---- MODULE Spec2Model ----
(***************************************************************************)
(* The two Conan recipes of libhal as one state machine.                   *)
(*                                                                         *)
(*   src/conanfile.py      header-only recipe   (recipe = "header")        *)
(*   src/v5/conanfile.py   module-enabled recipe (recipe = "modules")      *)
(*                                                                         *)
(* Conan drives a recipe through validate, generate, build, package and    *)
(* package_info, in that order, and stops at the first method that raises. *)
(* Text (paths, flags, the module-map file) is modelled as TLA+ strings,   *)
(* character for character; the file system is a function from absolute   *)
(* paths to file contents.                                                 *)
(***************************************************************************)
EXTENDS Integers, Sequences, FiniteSets, TLC

VARIABLES recipe, settings, world, package_folder, pc, error, fs, cmake,
          toolchain, cpp_info, installs, last_read, wrote, first_result

vars == <<recipe, settings, world, package_folder, pc, error, fs, cmake,
          toolchain, cpp_info, installs, last_read, wrote, first_result>>

(***************************************************************************)
(* Bounds of the model.                                                    *)
(***************************************************************************)
\* the longest module-map content, counted in fragments of ModmapFragments
MaxFrags == 3
\* how many times a built package is consumed (package_info runs on it)
MaxInstalls == 2

(***************************************************************************)
(* Text.                                                                   *)
(***************************************************************************)
\* Python's None, as settings.get_safe returns it for a setting left unset
None == "<None>"

\* Python's truth value of an optional string
Truthy(v) == v # None /\ v # ""

StartsWith(s, p) == Len(s) >= Len(p) /\ SubSeq(s, 1, Len(p)) = p

EndsWith(s, p) == Len(s) >= Len(p) /\ SubSeq(s, Len(s) - Len(p) + 1, Len(s)) = p

\* the places at which p stands in s
Find(s, p) == {i \in 1..(Len(s) - Len(p) + 1) : SubSeq(s, i, i + Len(p) - 1) = p}

\* Python's str.replace(old, new): one scan from the left, every
\* non-overlapping occurrence of old replaced, the replacement never rescanned
RECURSIVE replace(_, _, _)
replace(s, old, new) ==
    IF Find(s, old) = {} THEN s
    ELSE LET i == CHOOSE k \in Find(s, old) : \A j \in Find(s, old) : k <= j
         IN  SubSeq(s, 1, i - 1) \o new
               \o replace(SubSeq(s, i + Len(old), Len(s)), old, new)

Contains(s, p) == Find(s, p) # {}

\* pathlib's Path(a) / b, as str
PathJoin(a, b) == a \o "/" \o b

(***************************************************************************)
(* The module-enabled recipe's relocation of the module map                *)
(* (package_info, src/v5/conanfile.py lines 118-131).                      *)
(***************************************************************************)
cmake_files == "CMakeFiles/libhal.dir"

ModuleOutputFlag == "-fmodule-output"

ModuleFileFlag == "-fmodule-file=hal"

CompileOnlyLine == "-x c++-module\n"

package_cmake_dir(pkg) == PathJoin(pkg, "modules")

mod_map_file(pkg) == PathJoin(pkg, "hal.cppm.o.modmap")

\* a changed path: the module interface expected beside the module map
hal_pcm_beside_modmap(pkg) == PathJoin(pkg, "hal.pcm")

hal_pcm(pkg) == PathJoin(package_cmake_dir(pkg), "hal.pcm")

RehomePaths(content, pkg) == replace(content, cmake_files, package_cmake_dir(pkg))

NormalizeFlag(content) == replace(content, ModuleOutputFlag, ModuleFileFlag)

StripCompileOnly(content) == replace(content, CompileOnlyLine, "")

updated_content(content, pkg) ==
    StripCompileOnly(NormalizeFlag(RehomePaths(content, pkg)))

\* a changed guard: the file is rewritten on every run
ShouldWriteAlways(content, updated) == TRUE

ShouldWrite(content, updated) == content # updated

\* the two flags package_info publishes
modmap_flag(pkg) == "@" \o mod_map_file(pkg)

module_file_flag(pkg) == "-fmodule-file=hal=" \o hal_pcm(pkg)

(***************************************************************************)
(* Files.  conan.tools.files.copy(pattern, dst, src) walks src, matches    *)
(* each file's path relative to src against the fnmatch pattern and copies *)
(* the matches to dst under the same relative path (keep_path).            *)
(***************************************************************************)
source_folder == "/s"

build_folder == "/b"

fnmatch(name, pattern) ==
    IF StartsWith(pattern, "*")
    THEN EndsWith(name, SubSeq(pattern, 2, Len(pattern)))
    ELSE name = pattern

\* the path of p relative to the folder src that holds it
RelPath(p, src) == SubSeq(p, Len(src) + 2, Len(p))

copy(fsys, pattern, dst, src) ==
    LET matched == {p \in DOMAIN fsys :
                      /\ StartsWith(p, src \o "/")
                      /\ fnmatch(RelPath(p, src), pattern)}
        target(p) == PathJoin(dst, RelPath(p, src))
        copied == {target(p) : p \in matched}
    IN  [q \in (DOMAIN fsys) \cup copied |->
            IF q \in copied
            THEN fsys[CHOOSE p \in matched : target(p) = q]
            ELSE fsys[q]]

write_text(fsys, path, text) ==
    [q \in (DOMAIN fsys) \cup {path} |-> IF q = path THEN text ELSE fsys[q]]

\* the files lying under a folder
FilesUnder(fsys, dir) == {p \in DOMAIN fsys : StartsWith(p, dir \o "/")}

(***************************************************************************)
(* Settings and the language-standard check.                               *)
(***************************************************************************)
\* a changed minimum: the header-only recipe's standard
_min_cppstd_of_header_recipe == "20"

_min_cppstd == "23"

header_min_cppstd == "20"

\* versions are written component by component: "16.0.0" is <<16, 0, 0>>
_compilers_minimum_version ==
    [c \in {"gcc", "clang", "apple-clang", "msvc"} |->
        CASE c = "gcc" -> <<14>>
          [] c = "clang" -> <<16>>
          [] c = "apple-clang" -> <<16, 0, 0>>
          [] c = "msvc" -> <<193, 4>>]

header_compilers_minimum_version ==
    [c \in {"gcc", "clang", "apple-clang"} |->
        CASE c = "gcc" -> <<11>>
          [] c = "clang" -> <<14>>
          [] c = "apple-clang" -> <<14, 0, 0>>]

\* the year of a C++ standard named by its two digits
StdNumber == [s \in {"98", "11", "14", "17", "20", "23", "26"} |->
                 CASE s = "98" -> 1998
                   [] s = "11" -> 2011
                   [] s = "14" -> 2014
                   [] s = "17" -> 2017
                   [] s = "20" -> 2020
                   [] s = "23" -> 2023
                   [] s = "26" -> 2026]

\* conan.tools.build.check_min_cppstd: the "gnu" prefix of the current
\* standard is dropped, both standards get their millennium, and the current
\* one below the required one raises ConanInvalidConfiguration
extract_cpp_version(cppstd) ==
    IF StartsWith(cppstd, "gnu") THEN SubSeq(cppstd, 4, Len(cppstd)) ELSE cppstd

check_min_cppstd(current, required) ==
    IF current = None THEN "CppstdNotDefined"
    ELSE IF StdNumber[extract_cpp_version(current)] < StdNumber[required]
         THEN "StandardTooLow"
         ELSE "ok"

get_safe_cppstd(s) == s.cppstd

\* validate of either recipe: the standard is checked only when it is set
validate_result(s, min_cppstd) ==
    IF Truthy(get_safe_cppstd(s))
    THEN check_min_cppstd(get_safe_cppstd(s), min_cppstd)
    ELSE "ok"

(***************************************************************************)
(* What a run is given: the settings, the package folder Conan assigns,    *)
(* and what the external build (CMake, Ninja, the compiler) leaves in the  *)
(* build tree.                                                             *)
(***************************************************************************)
Recipes == {"header", "modules"}

Compilers == {"gcc", "clang", "apple-clang", "msvc", "intel-cc"}

Versions == {<<9, 0>>, <<13, 2>>, <<14>>, <<16, 0, 0>>, <<193, 4>>}

CppStds == {None, "17", "gnu17", "20", "23", "gnu23", "26"}

PackageFolders == {"/p", "/CMakeFiles/libhal.dir/p"}

\* where under CMakeFiles/libhal.dir the build puts hal.pcm
PcmLocations == {"", "sub/"}

StandardModmap(loc) ==
    CompileOnlyLine \o ModuleOutputFlag \o "=" \o cmake_files \o "/" \o loc
        \o "hal.pcm\n"

ModmapFragments ==
    { CompileOnlyLine, ModuleOutputFlag,
      "=" \o cmake_files \o "/hal.pcm\n",
      "=" \o cmake_files \o "/sub/hal.pcm\n",
      "=/old/hal.pcm\n",
      "-x c++", "-module\n", ModuleFileFlag }

RECURSIVE Concat(_)
Concat(frags) == IF frags = <<>> THEN "" ELSE Head(frags) \o Concat(Tail(frags))

ModmapContents ==
    {Concat(f) : f \in UNION {[1..n -> ModmapFragments] : n \in 0..MaxFrags}}

DefaultSettings == [compiler |-> "clang", version |-> <<16, 0, 0>>, cppstd |-> "23"]

DefaultWorld ==
    [archive |-> TRUE, pcm |-> TRUE, pcm_loc |-> "", has_modmap |-> TRUE,
     modmap |-> StandardModmap("")]

SourceTree(r) ==
    IF r = "modules"
    THEN {PathJoin(source_folder, "LICENSE"),
          PathJoin(source_folder, "modules/hal.cppm")}
    ELSE {PathJoin(source_folder, "LICENSE"),
          PathJoin(source_folder, "include/libhal/units.hpp"),
          PathJoin(source_folder, "include/libhal/third_party/inplace.h")}

\* Conan's CppInfo as package_info finds it
DefaultCppInfo ==
    [libs |-> <<>>, includedirs |-> <<"include">>, libdirs |-> <<"lib">>,
     bindirs |-> <<"bin">>, frameworkdirs |-> <<>>, resdirs |-> <<>>,
     cxxflags |-> <<>>]

BuildTreeModmap ==
    PathJoin(PathJoin(PathJoin(build_folder, cmake_files), "modules"),
             "hal.cppm.o.modmap")

\* the files the external build leaves in the build tree
BuildOutputs(w) ==
    (IF w.archive THEN {PathJoin(build_folder, "libhal.a")} ELSE {})
    \cup (IF w.pcm
          THEN {PathJoin(PathJoin(build_folder, cmake_files), w.pcm_loc \o "hal.pcm")}
          ELSE {})
    \cup (IF w.has_modmap THEN {BuildTreeModmap} ELSE {})

InitCommon ==
    /\ pc = "validate"
    /\ error = "ok"
    /\ fs = [p \in SourceTree(recipe) |-> ""]
    /\ cmake = <<>>
    /\ toolchain = [generator |-> "", cache_variables |-> {}]
    /\ cpp_info = DefaultCppInfo
    /\ installs = 0
    /\ last_read = ""
    /\ wrote = FALSE
    /\ first_result = ""

\* every toolchain, with the build behaving as expected
InitToolchains ==
    /\ recipe \in Recipes
    /\ settings \in [compiler : Compilers, version : Versions, cppstd : CppStds]
    /\ world = DefaultWorld
    /\ package_folder = "/p"

\* every set of build artifacts, with the module map the build writes for them
InitArtifacts ==
    /\ recipe = "modules"
    /\ settings = DefaultSettings
    /\ \E a \in BOOLEAN, c \in BOOLEAN, l \in PcmLocations, m \in BOOLEAN :
          world = [archive |-> a, pcm |-> c, pcm_loc |-> l, has_modmap |-> m,
                   modmap |-> StandardModmap(l)]
    /\ package_folder \in PackageFolders

\* every module-map text, with all artifacts present
InitModmaps ==
    /\ recipe = "modules"
    /\ settings = DefaultSettings
    /\ \E m \in ModmapContents : world = [DefaultWorld EXCEPT !.modmap = m]
    /\ package_folder \in PackageFolders

Init == (InitToolchains \/ InitArtifacts \/ InitModmaps) /\ InitCommon

(***************************************************************************)
(* The module-enabled recipe, src/v5/conanfile.py.                         *)
(***************************************************************************)
validate ==
    /\ recipe = "modules"
    /\ pc = "validate"
    /\ error' = validate_result(settings, _min_cppstd)
    /\ pc' = IF error' = "ok" THEN "generate" ELSE "failed"
    /\ UNCHANGED <<recipe, settings, world, package_folder, fs, cmake,
                   toolchain, cpp_info, installs, last_read, wrote,
                   first_result>>

generate ==
    /\ recipe = "modules"
    /\ pc = "generate"
    /\ toolchain' = [generator |-> "Ninja",
                     cache_variables |-> {<<"CMAKE_CXX_SCAN_FOR_MODULES", TRUE>>}]
    /\ pc' = "build"
    /\ UNCHANGED <<recipe, settings, world, package_folder, error, fs, cmake,
                   cpp_info, installs, last_read, wrote, first_result>>

\* cmake.configure(), cmake.build(): the external build leaves its outputs
build ==
    /\ recipe = "modules"
    /\ pc = "build"
    /\ cmake' = cmake \o <<"configure", "build">>
    /\ fs' = [p \in (DOMAIN fs) \cup BuildOutputs(world) |->
                 IF p = BuildTreeModmap /\ world.has_modmap THEN world.modmap
                 ELSE IF p \in DOMAIN fs THEN fs[p] ELSE ""]
    /\ pc' = "package"
    /\ UNCHANGED <<recipe, settings, world, package_folder, error, toolchain,
                   cpp_info, installs, last_read, wrote, first_result>>

package ==
    /\ recipe = "modules"
    /\ pc = "package"
    /\ LET f1 == copy(fs, "LICENSE", PathJoin(package_folder, "licenses"),
                      source_folder)
           f2 == copy(f1, "hal.cppm.o.modmap", package_folder,
                      PathJoin(PathJoin(build_folder, cmake_files), "modules"))
           f3 == copy(f2, "*.a", PathJoin(package_folder, "lib"), build_folder)
           f4 == copy(f3, "*.pcm", PathJoin(package_folder, "modules"),
                      PathJoin(build_folder, cmake_files))
           f5 == copy(f4, "*.cppm", PathJoin(package_folder, "modules"),
                      PathJoin(source_folder, "modules"))
       IN  fs' = f5
    /\ pc' = "package_info"
    /\ UNCHANGED <<recipe, settings, world, package_folder, error, cmake,
                   toolchain, cpp_info, installs, last_read, wrote,
                   first_result>>

package_info ==
    /\ recipe = "modules"
    /\ pc = "package_info"
    /\ LET info == [cpp_info EXCEPT !.libs = <<"libhal">>, !.bindirs = <<>>,
                                    !.frameworkdirs = <<>>, !.resdirs = <<>>,
                                    !.includedirs = <<>>]
           file == mod_map_file(package_folder)
       IN  IF file \notin DOMAIN fs
           THEN \* read_text raises FileNotFoundError
                /\ error' = "FileNotFoundError"
                /\ pc' = "failed"
                /\ cpp_info' = info
                /\ UNCHANGED <<fs, installs, last_read, wrote, first_result>>
           ELSE LET content == fs[file]
                    updated == updated_content(content, package_folder)
                IN  /\ fs' = IF ShouldWrite(content, updated)
                             THEN write_text(fs, file, updated)
                             ELSE fs
                    /\ cpp_info' =
                         [info EXCEPT !.cxxflags =
                             cpp_info.cxxflags
                               \o <<modmap_flag(package_folder),
                                    module_file_flag(package_folder)>>]
                    /\ last_read' = content
                    /\ wrote' = ShouldWrite(content, updated)
                    /\ first_result' = IF installs = 0 THEN fs'[file]
                                       ELSE first_result
                    /\ installs' = installs + 1
                    /\ pc' = "done"
                    /\ UNCHANGED error
    /\ UNCHANGED <<recipe, settings, world, package_folder, cmake, toolchain>>

(***************************************************************************)
(* The header-only recipe, src/conanfile.py.                               *)
(***************************************************************************)
header_validate ==
    /\ recipe = "header"
    /\ pc = "validate"
    /\ error' = validate_result(settings, header_min_cppstd)
    /\ pc' = IF error' = "ok" THEN "generate" ELSE "failed"
    /\ UNCHANGED <<recipe, settings, world, package_folder, fs, cmake,
                   toolchain, cpp_info, installs, last_read, wrote,
                   first_result>>

header_generate ==
    /\ recipe = "header"
    /\ pc = "generate"
    /\ cmake' = cmake \o <<"configure", "build copy_compile_commands">>
    /\ pc' = "build"
    /\ UNCHANGED <<recipe, settings, world, package_folder, error, fs,
                   toolchain, cpp_info, installs, last_read, wrote,
                   first_result>>

header_build ==
    /\ recipe = "header"
    /\ pc = "build"
    /\ cmake' = cmake \o <<"configure", "build">>
    /\ pc' = "package"
    /\ UNCHANGED <<recipe, settings, world, package_folder, error, fs,
                   toolchain, cpp_info, installs, last_read, wrote,
                   first_result>>

header_package ==
    /\ recipe = "header"
    /\ pc = "package"
    /\ LET f1 == copy(fs, "LICENSE", PathJoin(package_folder, "licenses"),
                      source_folder)
           f2 == copy(f1, "*.h", PathJoin(package_folder, "include"),
                      PathJoin(source_folder, "include"))
           f3 == copy(f2, "*.hpp", PathJoin(package_folder, "include"),
                      PathJoin(source_folder, "include"))
       IN  fs' = f3
    /\ pc' = "package_info"
    /\ UNCHANGED <<recipe, settings, world, package_folder, error, cmake,
                   toolchain, cpp_info, installs, last_read, wrote,
                   first_result>>

header_package_info ==
    /\ recipe = "header"
    /\ pc = "package_info"
    /\ cpp_info' = [cpp_info EXCEPT !.bindirs = <<>>, !.frameworkdirs = <<>>,
                                    !.libdirs = <<>>, !.resdirs = <<>>]
    /\ installs' = installs + 1
    /\ pc' = "done"
    /\ UNCHANGED <<recipe, settings, world, package_folder, error, fs, cmake,
                   toolchain, last_read, wrote, first_result>>

(***************************************************************************)
(* A later consumer of the packaged library: Conan makes a new instance of *)
(* the recipe, with a new cpp_info, and calls package_info on the same     *)
(* package folder.                                                         *)
(***************************************************************************)
Reload ==
    /\ pc = "done"
    /\ installs < MaxInstalls
    /\ cpp_info' = DefaultCppInfo
    /\ pc' = "package_info"
    /\ UNCHANGED <<recipe, settings, world, package_folder, error, fs, cmake,
                   toolchain, installs, last_read, wrote, first_result>>

Next ==
    \/ validate
    \/ generate
    \/ build
    \/ package
    \/ package_info
    \/ header_validate
    \/ header_generate
    \/ header_build
    \/ header_package
    \/ header_package_info
    \/ Reload

Spec == Init /\ [][Next]_vars

(***************************************************************************)
(* Vocabulary of the properties.                                           *)
(***************************************************************************)
\* component-wise numeric order of versions, a missing component being 0
Component(v, i) == IF i <= Len(v) THEN v[i] ELSE 0

VersionLess(a, b) ==
    \E i \in 1..3 :
        /\ Component(a, i) < Component(b, i)
        /\ \A j \in 1..(i - 1) : Component(a, j) = Component(b, j)

MinimumVersions ==
    IF recipe = "modules" THEN _compilers_minimum_version
    ELSE header_compilers_minimum_version

BelowMinimum ==
    /\ settings.compiler \in DOMAIN MinimumVersions
    /\ VersionLess(settings.version, MinimumVersions[settings.compiler])

AtOrAboveMinimum ==
    /\ settings.compiler \in DOMAIN MinimumVersions
    /\ ~VersionLess(settings.version, MinimumVersions[settings.compiler])

Targets == {"CMakeFiles/libhal.dir", "-fmodule-output", "-x c++-module\n"}

HasNoTarget(content) == \A t \in Targets : ~Contains(content, t)

HasAllTargets(content) == \A t \in Targets : Contains(content, t)

\* the lines of a text, each without its newline
Lines(content) ==
    LET ends == Find(content, "\n")
        start(e) == IF \E j \in ends : j < e
                    THEN 1 + CHOOSE j \in ends :
                                 j < e /\ \A k \in ends : k < e => k <= j
                    ELSE 1
    IN  {SubSeq(content, start(e), e - 1) : e \in ends}

\* the paths the flags of a module map name: what follows a line's last "="
ReferencedPaths(content) ==
    {SubSeq(l, 1 + (CHOOSE i \in Find(l, "=") : \A k \in Find(l, "=") : k <= i),
            Len(l)) : l \in {x \in Lines(content) : Contains(x, "=")}}

PackagedModmap == fs[package_folder \o "/hal.cppm.o.modmap"]

PackageFiles == FilesUnder(fs, package_folder)

AllArtifacts == world.archive /\ world.pcm /\ world.has_modmap

ModuleFileFlags ==
    {i \in 1..Len(cpp_info.cxxflags) :
        StartsWith(cpp_info.cxxflags[i], "-fmodule-file")}

(***************************************************************************)
(* Properties.                                                             *)
(***************************************************************************)

\* C1: relocation is idempotent: the module map a package_info run leaves
\* is unchanged by relocating it again, and from the second run on the file
\* equals the result of the first run and is not written.
C1_RelocationIdempotent ==
    (recipe = "modules" /\ pc = "done" /\ AllArtifacts) =>
        /\ updated_content(PackagedModmap, package_folder) = PackagedModmap
        /\ (installs >= 2 => PackagedModmap = first_result /\ ~wrote)

\* C2: a module map that held the build-tree path, the module-producing
\* flag and the compile-only line holds, after relocation, none of the
\* three, and holds the module-consuming flag.
C2_TargetsGoneAfterRelocation ==
    (recipe = "modules" /\ pc = "done" /\ installs = 1 /\ AllArtifacts
       /\ HasAllTargets(last_read)) =>
        /\ HasNoTarget(PackagedModmap)
        /\ Cardinality(Find(PackagedModmap, "-fmodule-file=hal"))
             >= Cardinality(Find(last_read, "-fmodule-output"))

\* C3: after package and package_info, wherever under CMakeFiles/libhal.dir
\* the build put the precompiled module interface, every path the relocated
\* module map names and the path of the published module-file flag are
\* files of the package.
C3_PublishedPathsExist ==
    (recipe = "modules" /\ pc = "done" /\ installs = 1 /\ AllArtifacts
       /\ world.modmap = StandardModmap(world.pcm_loc)) =>
        /\ ReferencedPaths(PackagedModmap) \subseteq PackageFiles
        /\ (package_folder \o "/modules/hal.pcm") \in PackageFiles

\* C4: once validate has run, a compiler of a family of the table is
\* rejected with VersionTooLow when its version is below the family's
\* minimum, and is not rejected for its version otherwise.
C4_CompilerVersionChecked ==
    (pc # "validate") =>
        /\ (BelowMinimum => error = "VersionTooLow" /\ pc = "failed")
        /\ (AtOrAboveMinimum => error # "VersionTooLow")

\* C5: a run of the module-enabled recipe with a compiler below the
\* modules minimum never invokes CMake and never creates a file of the
\* package.
C5_BelowMinimumNeverBuilds ==
    (recipe = "modules" /\ BelowMinimum) =>
        /\ cmake = <<>>
        /\ PackageFiles = {}
        /\ pc \in {"validate", "failed"}

\* C6: a module map with none of the three targets is left as it is, and
\* when it still names a path that is no file of the package the run fails
\* with UnresolvedReference and publishes no flags.
C6_UnresolvedReferenceRaised ==
    (recipe = "modules" /\ installs >= 1 /\ AllArtifacts
       /\ HasNoTarget(last_read)) =>
        /\ PackagedModmap = last_read
        /\ (~(ReferencedPaths(PackagedModmap) \subseteq PackageFiles) =>
               /\ error = "UnresolvedReference"
               /\ cpp_info.cxxflags = <<>>)

\* C7: when the build tree lacks the archive, the precompiled module
\* interface or the module map, packaging fails with ArtifactNotFound: no
\* file of the package is created and no flags are published.
C7_MissingArtifactFails ==
    (recipe = "modules" /\ ~AllArtifacts
       /\ pc \in {"package_info", "done", "failed"}) =>
        /\ error = "ArtifactNotFound"
        /\ PackageFiles = {}
        /\ cpp_info.cxxflags = <<>>

\* C8: with all artifacts built, after package and package_info the lib and
\* modules directories of the package hold files, the libraries are exactly
\* libhal, and the flags hold the reference to the packaged module map and
\* exactly one module-file flag, naming <package>/modules/hal.pcm (a file of
\* the package when the build put hal.pcm directly in CMakeFiles/libhal.dir).
C8_PackageComplete ==
    (recipe = "modules" /\ pc = "done" /\ AllArtifacts) =>
        /\ FilesUnder(fs, package_folder \o "/lib") # {}
        /\ FilesUnder(fs, package_folder \o "/modules") # {}
        /\ cpp_info.libs = <<"libhal">>
        /\ \E i \in 1..Len(cpp_info.cxxflags) :
              cpp_info.cxxflags[i] = "@" \o package_folder \o "/hal.cppm.o.modmap"
        /\ Cardinality(ModuleFileFlags) = 1
        /\ \A i \in ModuleFileFlags :
              cpp_info.cxxflags[i] =
                  "-fmodule-file=hal=" \o package_folder \o "/modules/hal.pcm"
        /\ (world.pcm_loc = "" =>
              (package_folder \o "/modules/hal.pcm") \in PackageFiles)

C8_Witness ==
    /\ recipe = "modules" /\ pc = "done" /\ AllArtifacts /\ installs = 2
    /\ world.modmap = StandardModmap("")
    /\ package_folder = "/p"
    /\ cpp_info.cxxflags = <<"@/p/hal.cppm.o.modmap",
                             "-fmodule-file=hal=/p/modules/hal.pcm">>

\* C9: once validate has run, a requested standard below the recipe's
\* minimum (20 header-only, 23 module-enabled) has failed the run with
\* StandardTooLow, and a requested standard at or above it has not,
\* whatever the compiler and its version.
C9_StandardChecked ==
    (pc # "validate" /\ settings.cppstd # None) =>
        LET year == StdNumber[extract_cpp_version(settings.cppstd)]
            minimum == IF recipe = "modules" THEN 2023 ELSE 2020
        IN  /\ (year < minimum => error = "StandardTooLow" /\ pc = "failed")
            /\ (year >= minimum => error # "StandardTooLow")

C9_Witness ==
    /\ recipe = "modules" /\ pc = "failed" /\ error = "StandardTooLow"
    /\ settings.cppstd = "20"
    /\ settings.compiler = "gcc" /\ settings.version = <<14>>

\* C10: package_info writes the module map exactly when relocation changed
\* the content it read; a rule whose target is absent changes nothing and
\* raises nothing; and when no rule changes anything the file is left as it
\* was while both flags are still published.
C10_WritesOnlyOnChange ==
    (recipe = "modules" /\ pc = "done") =>
        LET c1 == replace(last_read, "CMakeFiles/libhal.dir",
                          package_folder \o "/modules")
            c2 == replace(c1, "-fmodule-output", "-fmodule-file=hal")
            c3 == replace(c2, "-x c++-module\n", "")
        IN  /\ wrote <=> (c3 # last_read)
            /\ PackagedModmap = c3
            /\ (~Contains(last_read, "CMakeFiles/libhal.dir") => c1 = last_read)
            /\ (~Contains(c1, "-fmodule-output") => c2 = c1)
            /\ (~Contains(c2, "-x c++-module\n") => c3 = c2)
            /\ error = "ok"
            /\ Len(cpp_info.cxxflags) = 2

C10_Witness ==
    /\ recipe = "modules" /\ pc = "done" /\ installs = 1 /\ ~wrote
    /\ last_read = "-fmodule-file=hal=/old/hal.pcm\n"
    /\ PackagedModmap = last_read
    /\ Len(cpp_info.cxxflags) = 2

====
